---- MODULE Spec2Model ----
(***************************************************************************)
(* Model of port_scanner.py: the port-range parser, the single-port        *)
(* prober scan_port, the thread-pool coordinator scan_ports and the        *)
(* command-line driver main.                                               *)
(*                                                                         *)
(* A port specification is a sequence of one-character strings.  A probe   *)
(* result is the tuple <<port, is_open, service>> of the source.  The      *)
(* socket library and the network are the environment: what connect_ex     *)
(* returns or raises is a nondeterministic choice.                         *)
(***************************************************************************)
EXTENDS Integers, Sequences, FiniteSets, TLC

\* ------------------------------------------------------------------ bounds
\* Largest port named by the generated port specifications.
MaxPort == 3
\* Largest value of -w/--workers tried.
MaxWorkers == 3

\* Longest generated port-specification string.
MaxLen == 3

\* ------------------------------------------------------- program constants
MIN_PORT == 1
MAX_PORT == 65535

Digits == <<"0", "1", "2", "3", "4", "5", "6", "7", "8", "9">>

DigitChar(n) == Digits[n + 1]

DigitValue(c) == CHOOSE d \in 0..9 : Digits[d + 1] = c

IsDigit(c) == \E d \in 0..9 : Digits[d + 1] = c

\* ------------------------------------------------------ parse_port_range
\* str.split(sep): the pieces between the separators, "" included.
RECURSIVE split(_, _)
split(s, sep) ==
  IF s = <<>> THEN << <<>> >>
  ELSE LET rest == split(Tail(s), sep)
       IN  IF Head(s) = sep
             THEN << <<>> >> \o rest
             ELSE << <<Head(s)>> \o Head(rest) >> \o Tail(rest)

RECURSIVE lstrip(_)
lstrip(s) == IF s # <<>> /\ Head(s) = " " THEN lstrip(Tail(s)) ELSE s

RECURSIVE rstrip(_)
rstrip(s) ==
  IF s # <<>> /\ s[Len(s)] = " " THEN rstrip(SubSeq(s, 1, Len(s) - 1)) ELSE s

\* str.strip()
strip(s) == rstrip(lstrip(s))

\* int(s) succeeds: after stripping blanks, a non-empty run of digits.
is_int(s) ==
  LET t == strip(s)
  IN  t # <<>> /\ \A i \in 1..Len(t) : IsDigit(t[i])

RECURSIVE digits_value(_)
digits_value(t) ==
  IF t = <<>> THEN 0
  ELSE 10 * digits_value(SubSeq(t, 1, Len(t) - 1)) + DigitValue(t[Len(t)])

\* int(s), for s with is_int(s)
int(s) == digits_value(strip(s))

Contains(s, c) == \E i \in 1..Len(s) : s[i] = c

\* range(start, stop): start, start + 1, ..., stop - 1.
range(start, stop) == [k \in 1..(stop - start) |-> start + k - 1]

\* A range test without the lower bound on start.
valid_range_no_floor(start, end) ==
  start <= end /\ start <= MAX_PORT /\ MIN_PORT <= end /\ end <= MAX_PORT

\* The test of line 82.
valid_range(start, end) ==
  /\ start <= end
  /\ MIN_PORT <= start /\ start <= MAX_PORT
  /\ MIN_PORT <= end /\ end <= MAX_PORT

\* The test of line 92.
valid_port(port) == MIN_PORT <= port /\ port <= MAX_PORT

\* One comma-separated part (lines 75-97): the ports it appends to the
\* list, the warnings it prints, and whether it raises (the unpacking of
\* line 78 is outside the try block).
parse_part(raw) ==
  LET part == strip(raw)
      none(w, r) == [ports |-> <<>>, warnings |-> w, raised |-> r]
  IN  IF Contains(part, "-")
        THEN LET pieces == split(part, "-")
             IN  IF Len(pieces) # 2 THEN none(0, TRUE)
                 ELSE IF ~(is_int(pieces[1]) /\ is_int(pieces[2])) THEN none(1, FALSE)
                 ELSE LET start == int(pieces[1])
                          end   == int(pieces[2])
                      IN  IF valid_range(start, end)
                            THEN [ports |-> range(start, end + 1), warnings |-> 0,
                                  raised |-> FALSE]
                            ELSE none(1, FALSE)
        ELSE IF ~is_int(part) THEN none(1, FALSE)
             ELSE LET port == int(part)
                  IN  IF valid_port(port)
                        THEN [ports |-> <<port>>, warnings |-> 0, raised |-> FALSE]
                        ELSE none(1, FALSE)

\* sorted(S) for a set S of integers.
RECURSIVE sorted(_)
sorted(S) ==
  IF S = {} THEN <<>>
  ELSE LET m == CHOOSE x \in S : \A y \in S : x <= y
       IN  <<m>> \o sorted(S \ {m})

\* set(ports)
set(list) == {list[i] : i \in 1..Len(list)}

\* The list returned as accumulated, neither deduplicated nor sorted.
as_accumulated(list) == list

\* sorted(list(set(ports))) (line 99)
sorted_unique(list) == sorted(set(list))

\* The loop of lines 74-97 over the parts, in order; a part that raises
\* ends it.
RECURSIVE parse_parts(_)
parse_parts(parts) ==
  IF parts = <<>> THEN [ports |-> <<>>, warnings |-> 0, raised |-> FALSE]
  ELSE LET one == parse_part(Head(parts))
       IN  IF one.raised THEN one
           ELSE LET rest == parse_parts(Tail(parts))
                IN  [ports    |-> one.ports \o rest.ports,
                     warnings |-> one.warnings + rest.warnings,
                     raised   |-> rest.raised]

parse_port_range(port_range) ==
  LET r == parse_parts(split(port_range, ","))
  IN  [ports    |-> IF r.raised THEN <<>> ELSE sorted_unique(r.ports),
       warnings |-> r.warnings,
       raised   |-> r.raised]

\* ------------------------------------------------------------- scan_port
\* The system services database read by socket.getservbyport (line 47):
\* port 1 is tcpmux and port 22 is ssh; the other ports used here have no
\* entry ("" stands for the lookup raising), and the bare except of line 48
\* then yields "unknown".
getservbyport(port) ==
  CASE port = 1  -> "tcpmux"
    [] port = 22 -> "ssh"
    [] OTHER     -> ""

\* The lookup's answer passed on as it is, empty when there is no entry.
service_name_raw(port) == getservbyport(port)

\* Lines 46-49.
service_name(port) ==
  IF getservbyport(port) # "" THEN getservbyport(port) ELSE "unknown"

\* The host argument of scan_port: an IPv4 literal (what gethostbyname
\* returns) or a host name, which connect_ex has to resolve itself.
IpLiteral == "ip"
HostName == "name"

\* What sock.connect_ex can do (line 42): return 0, return an errno
\* (refused, unreachable, timed out), or, when the host is a name that
\* does not resolve, raise gaierror.  With a timeout of 0 the socket is
\* non-blocking and connect_ex returns EINPROGRESS at once, never 0.
ConnectOutcomes(host, timeout) ==
  {"errno"} \cup (IF timeout > 0 THEN {"zero"} ELSE {})
            \cup (IF host = HostName THEN {"gaierror"} ELSE {})

\* What a call of scan_port has come to: still blocked in connect_ex
\* (done = FALSE), returned `result`, or raised `exception`; `sock` is the
\* state of the socket it created.
ProbeState(done, result, exception, sock) ==
  [done |-> done, result |-> result, exception |-> exception, sock |-> sock]

\* The handlers of lines 53-56: gaierror and socket.error (OSError) are
\* caught, nothing else is.
caught(exception) == exception \in {"gaierror", "OSError"}

\* Lines 39-41: create the socket and set its timeout.  `created` is
\* whether socket.socket() succeeded (it raises OSError when the process is
\* out of descriptors); settimeout raises ValueError on a negative value.
scan_port_begin(port, timeout, created) ==
  IF ~created
    THEN ProbeState(TRUE, <<port, FALSE, "">>, "", "none")
  ELSE IF timeout < 0
    THEN IF caught("ValueError")
           THEN ProbeState(TRUE, <<port, FALSE, "">>, "", "open")
           ELSE ProbeState(TRUE, <<>>, "ValueError", "open")
  ELSE ProbeState(FALSE, <<>>, "", "open")

\* What the service behind a port sends unsolicited once a connection is
\* accepted: an SSH server greets, the other services wait for the client.
PeerBanner(port) == IF port = 22 THEN "SSH-2.0" ELSE ""

\* A prober that reads after a successful connect and returns what it read
\* as a fourth component of the result.
scan_port_connect_with_banner(port, rc) ==
  IF rc = "zero"
    THEN ProbeState(TRUE, <<port, TRUE, service_name(port), PeerBanner(port)>>,
                    "", "closed")
  ELSE IF rc = "errno"
    THEN ProbeState(TRUE, <<port, FALSE, "">>, "", "closed")
  ELSE IF caught(rc)
    THEN ProbeState(TRUE, <<port, FALSE, "">>, "", "open")
  ELSE ProbeState(TRUE, <<>>, rc, "open")

\* Lines 42-56: connect_ex, close, classify.  When connect_ex raises,
\* line 43 is skipped and the handler returns without closing the socket.
scan_port_connect(port, rc) ==
  IF rc = "zero"
    THEN ProbeState(TRUE, <<port, TRUE, service_name(port)>>, "", "closed")
  ELSE IF rc = "errno"
    THEN ProbeState(TRUE, <<port, FALSE, "">>, "", "closed")
  ELSE IF caught(rc)
    THEN ProbeState(TRUE, <<port, FALSE, "">>, "", "open")
  ELSE ProbeState(TRUE, <<>>, rc, "open")

\* ------------------------------------------------------------ scan_ports
\* sorted(results, key=lambda x: x[0]) (line 135): a stable sort by port.
RECURSIVE insert_by_port(_, _)
insert_by_port(r, seq) ==
  IF seq = <<>> THEN <<r>>
  ELSE IF Head(seq)[1] <= r[1]
    THEN <<Head(seq)>> \o insert_by_port(r, Tail(seq))
  ELSE <<r>> \o seq

\* scan_ports returning `results` as collected, without the sort.
as_collected(seq) == seq

sorted_by_port(seq) ==
  LET prefix[n \in 0..Len(seq)] ==
        IF n = 0 THEN <<>> ELSE insert_by_port(seq[n], prefix[n - 1])
  IN  prefix[Len(seq)]

\* An executor that rejects only negative worker counts.
executor_rejects_negative(max_workers) == max_workers < 0

\* ThreadPoolExecutor(max_workers=...) (line 127) raises ValueError when
\* max_workers is not positive.
executor_rejects(max_workers) == max_workers <= 0

\* A pool whose comparison with max_workers is inverted: it never starts a
\* worker.
spawns_thread_inverted(idle, threads, max_workers) ==
  idle = 0 /\ threads > max_workers

\* A pool that starts a thread for every submission that finds no idle
\* worker, whatever max_workers is.
spawns_thread_unbounded(idle, threads, max_workers) == idle = 0

\* executor.submit (line 128) starts a new worker thread when no worker is
\* idle and the pool is not yet at max_workers.
spawns_thread(idle, threads, max_workers) == idle = 0 /\ threads < max_workers

\* --------------------------------------------------------------- inputs
\* -p/--ports values: a range, an unsorted list with a duplicate, a single
\* port, no valid token, the empty string, and a token with two
\* separators.
PortSpecInputs ==
  { <<"1", "-", DigitChar(MaxPort)>>,
    <<"2", ",", "1", ",", "2">>,
    <<DigitChar(MaxPort)>>,
    <<"x">>,
    <<>>,
    <<"1", "-", "2", "-", "3">> }

\* -t/--timeout values (seconds): negative, zero, positive.
Timeouts == {0 - 1, 0, 1}

\* -w/--workers values.
WorkerCounts == (0 - 1)..MaxWorkers

Targets == {"resolvable", "unresolvable"}

\* ---------------------------------------------------------------- state
VARIABLES
  args,         \* the parsed command line
  pc,           \* position of the main thread
  ports,        \* main's `ports`
  warnings,     \* number of "Invalid port ..." lines printed by the parser
  target_ip,    \* main's `target_ip` ("" before resolution)
  futures,      \* scan_ports' `futures`, in submission order
  work_queue,   \* the executor's queue: indexes of futures not yet taken
  num_threads,  \* worker threads of the executor
  idle_sem,     \* the executor's idle-worker semaphore
  results,      \* scan_ports' `results`
  progress,     \* completed count of the progress task
  report,       \* the list scan_ports returned
  returned,     \* scan_ports has returned
  exc,          \* exception propagating in the main thread ("" if none)
  interrupted,  \* a KeyboardInterrupt was delivered during the scan
  exit_code     \* the process exit code (-1 while running)

vars == <<args, pc, ports, warnings, target_ip, futures, work_queue,
          num_threads, idle_sem, results, progress, report, returned, exc,
          interrupted, exit_code>>

\* A future and the call of scan_port it stands for; `rc` is what
\* connect_ex did in that call ("" while it has not come back).
Future(port) ==
  [port |-> port, state |-> "PENDING", result |-> <<>>, exception |-> "",
   sock |-> "none", rc |-> "", collected |-> FALSE]

Finish(f, p) ==
  [f EXCEPT !.state = IF p.done THEN "FINISHED" ELSE "RUNNING",
            !.result = p.result, !.exception = p.exception, !.sock = p.sock]

Running == {i \in 1..Len(futures) : futures[i].state = "RUNNING"}

Init ==
  /\ args \in [ports : PortSpecInputs, target : Targets,
               timeout : Timeouts, workers : WorkerCounts]
  /\ pc = "parse"
  /\ ports = <<>>
  /\ warnings = 0
  /\ target_ip = ""
  /\ futures = <<>>
  /\ work_queue = <<>>
  /\ num_threads = 0
  /\ idle_sem = 0
  /\ results = <<>>
  /\ progress = 0
  /\ report = <<>>
  /\ returned = FALSE
  /\ exc = ""
  /\ interrupted = FALSE
  /\ exit_code = 0 - 1

\* ----------------------------------------------------------------- main
\* A check that lets every list through.
any_ports_accepted(ps) == FALSE

\* `not ports` (line 248)
no_valid_ports(ps) == ps = <<>>

\* Lines 245-250: parse the ports; an exception escaping the parser ends
\* the process with a traceback (exit code 1), as does an empty list.
ParsePorts ==
  /\ pc = "parse"
  /\ LET r == parse_port_range(args.ports)
     IN  /\ ports' = r.ports
         /\ warnings' = r.warnings
         /\ IF r.raised
              THEN /\ exc' = "ValueError"
                   /\ pc' = "exit"
                   /\ exit_code' = 1
            ELSE IF no_valid_ports(r.ports)
              THEN /\ pc' = "exit"
                   /\ exit_code' = 1
                   /\ exc' = exc
            ELSE /\ pc' = "resolve"
                 /\ UNCHANGED <<exit_code, exc>>
  /\ UNCHANGED <<args, target_ip, futures, work_queue, num_threads, idle_sem,
                 results, progress, report, returned, interrupted>>

\* A resolver that never fails.
gethostbyname_unchecked(target) == IpLiteral

\* socket.gethostbyname (line 254) raises gaierror for a name that does
\* not resolve.
gethostbyname(target) == IF target = "resolvable" THEN IpLiteral ELSE ""

\* Lines 252-261.
ResolveTarget ==
  /\ pc = "resolve"
  /\ LET ip == gethostbyname(args.target)
     IN  IF ip # ""
           THEN /\ target_ip' = ip
                /\ pc' = "scan"
                /\ UNCHANGED exit_code
           ELSE /\ pc' = "exit"
                /\ exit_code' = 1
                /\ UNCHANGED target_ip
  /\ UNCHANGED <<args, ports, warnings, futures, work_queue, num_threads,
                 idle_sem, results, progress, report, returned, exc,
                 interrupted>>

\* Lines 115-127: enter scan_ports and construct the executor; with no
\* port to submit the comprehension and the as_completed loop are empty.
ScanEnter ==
  /\ pc = "scan"
  /\ results' = <<>>
  /\ IF executor_rejects(args.workers)
       THEN /\ exc' = "ValueError"
            /\ pc' = "handler"
       ELSE /\ pc' = IF ports = <<>> THEN "shutdown" ELSE "submit"
            /\ UNCHANGED exc
  /\ UNCHANGED <<args, ports, warnings, target_ip, futures, work_queue,
                 num_threads, idle_sem, progress, report, returned,
                 interrupted, exit_code>>

\* Line 128, one iteration of the comprehension: submit the next port.
Submit ==
  /\ pc = "submit"
  /\ LET i == Len(futures) + 1
     IN  /\ futures' = Append(futures, Future(ports[i]))
         /\ work_queue' = Append(work_queue, i)
         /\ IF idle_sem > 0
              THEN /\ idle_sem' = idle_sem - 1
                   /\ UNCHANGED num_threads
              ELSE /\ num_threads' =
                        IF spawns_thread(idle_sem, num_threads, args.workers)
                          THEN num_threads + 1 ELSE num_threads
                   /\ UNCHANGED idle_sem
         /\ pc' = IF i = Len(ports) THEN "collect" ELSE "submit"
  /\ UNCHANGED <<args, ports, warnings, target_ip, results, progress, report,
                 returned, exc, interrupted, exit_code>>

\* A free worker thread takes the next work item and runs scan_port up to
\* the blocking connect (lines 39-41).
ProbeStart(i) ==
  /\ work_queue # <<>>
  /\ Head(work_queue) = i
  /\ Cardinality(Running) < num_threads
  /\ \E created \in BOOLEAN :
       LET p == scan_port_begin(futures[i].port, args.timeout, created)
       IN  /\ futures' = [futures EXCEPT ![i] = Finish(@, p)]
           /\ idle_sem' = IF p.done THEN idle_sem + 1 ELSE idle_sem
  /\ work_queue' = Tail(work_queue)
  /\ UNCHANGED <<args, pc, ports, warnings, target_ip, num_threads, results,
                 progress, report, returned, exc, interrupted, exit_code>>

\* connect_ex comes back and scan_port runs to its end (lines 42-56); the
\* worker sets the future's result and becomes idle.
ProbeConnect(i) ==
  /\ i \in Running
  /\ \E rc \in ConnectOutcomes(target_ip, args.timeout) :
       futures' = [futures EXCEPT
                     ![i] = [Finish(@, scan_port_connect(futures[i].port, rc))
                               EXCEPT !.rc = rc]]
  /\ idle_sem' = idle_sem + 1
  /\ UNCHANGED <<args, pc, ports, warnings, target_ip, work_queue,
                 num_threads, results, progress, report, returned, exc,
                 interrupted, exit_code>>

\* A collection loop that keeps only the open ports.
collect_open_only(rs, f) == IF f.result[2] THEN Append(rs, f.result) ELSE rs

\* results.append(result) (line 132).
collect(rs, f) == Append(rs, f.result)

\* A progress bar that is not advanced.
progress_not_advanced(n) == n

\* progress.update(task, advance=1) (line 133)
progress_advance(n) == n + 1

\* Lines 130-133, one iteration of the as_completed loop: future.result()
\* re-raises the probe's exception, otherwise the result is appended and
\* the progress bar advanced.
Collect(i) ==
  /\ pc = "collect"
  /\ i \in 1..Len(futures)
  /\ futures[i].state = "FINISHED"
  /\ ~futures[i].collected
  /\ futures' = [futures EXCEPT ![i].collected = TRUE]
  /\ IF futures[i].exception # ""
       THEN /\ exc' = futures[i].exception
            /\ pc' = "shutdown"
            /\ UNCHANGED <<results, progress>>
       ELSE /\ results' = collect(results, futures[i])
            /\ progress' = progress_advance(progress)
            /\ pc' = IF \A j \in 1..Len(futures) : j = i \/ futures[j].collected
                       THEN "shutdown" ELSE "collect"
            /\ UNCHANGED exc
  /\ UNCHANGED <<args, ports, warnings, target_ip, work_queue, num_threads,
                 idle_sem, report, returned, interrupted, exit_code>>

\* Ctrl-C while scan_ports is submitting or waiting: KeyboardInterrupt is
\* raised in the main thread and leaves the with block.
Interrupt ==
  /\ pc \in {"submit", "collect"}
  /\ exc' = "KeyboardInterrupt"
  /\ interrupted' = TRUE
  /\ pc' = "shutdown"
  /\ UNCHANGED <<args, ports, warnings, target_ip, futures, work_queue,
                 num_threads, idle_sem, results, progress, report, returned,
                 exit_code>>

\* Leaving `with ThreadPoolExecutor` (line 127) is shutdown(wait=True): it
\* joins the workers, which first drain the queue.  Then scan_ports returns
\* the sorted results (line 135) or the exception propagates to main.
ExecutorShutdown ==
  /\ pc = "shutdown"
  /\ work_queue = <<>>
  /\ Running = {}
  /\ IF exc = ""
       THEN /\ report' = sorted_by_port(results)
            /\ returned' = TRUE
            /\ pc' = "display"
       ELSE /\ pc' = "handler"
            /\ UNCHANGED <<report, returned>>
  /\ UNCHANGED <<args, ports, warnings, target_ip, futures, work_queue,
                 num_threads, idle_sem, results, progress, exc, interrupted,
                 exit_code>>

\* Lines 267-270: display the results; main returns and the process ends
\* with exit code 0.
DisplayResults ==
  /\ pc = "display"
  /\ pc' = "exit"
  /\ exit_code' = 0
  /\ UNCHANGED <<args, ports, warnings, target_ip, futures, work_queue,
                 num_threads, idle_sem, results, progress, report, returned,
                 exc, interrupted>>

\* Handlers that all exit with code 1.
handler_exit_code_failure(e) == 1

\* Lines 272-277: the handlers around the scan.
handler_exit_code(e) == IF e = "KeyboardInterrupt" THEN 0 ELSE 1

ScanHandler ==
  /\ pc = "handler"
  /\ pc' = "exit"
  /\ exit_code' = handler_exit_code(exc)
  /\ UNCHANGED <<args, ports, warnings, target_ip, futures, work_queue,
                 num_threads, idle_sem, results, progress, report, returned,
                 exc, interrupted>>

Next ==
  \/ ParsePorts
  \/ ResolveTarget
  \/ ScanEnter
  \/ Submit
  \/ \E i \in 1..Len(futures) : ProbeStart(i)
  \/ \E i \in 1..Len(futures) : ProbeConnect(i)
  \/ \E i \in 1..Len(futures) : Collect(i)
  \/ Interrupt
  \/ ExecutorShutdown
  \/ DisplayResults
  \/ ScanHandler

Spec == Init /\ [][Next]_vars

\* Every step of scan_ports and of its workers, the user's interrupt left
\* out.
ScanStep ==
  \/ Submit
  \/ \E i \in 1..Len(futures) : ProbeStart(i)
  \/ \E i \in 1..Len(futures) : ProbeConnect(i)
  \/ \E i \in 1..Len(futures) : Collect(i)
  \/ ExecutorShutdown

\* Runs with a valid configuration and no interrupt, in which the main
\* thread and the workers keep being scheduled and connect_ex comes back
\* within its timeout: some enabled step of the scan is eventually taken.
LiveInit == Init /\ args.timeout > 0 /\ args.workers >= 1

LiveNext ==
  \/ ParsePorts
  \/ ResolveTarget
  \/ ScanEnter
  \/ ScanStep
  \/ DisplayResults

LiveSpec == LiveInit /\ [][LiveNext]_vars /\ WF_vars(ScanStep)

\* ------------------------------------------------- scan_port on its own
\* scan_port called directly, once, by a single thread: the host is either
\* kind, the port any of a few, the timeout any of Timeouts.
ProbePorts == (1..MaxPort) \cup {22, MAX_PORT}

ProbeInit ==
  /\ \E t \in Timeouts :
       args = [ports |-> <<>>, target |-> "resolvable", timeout |-> t,
               workers |-> 1]
  /\ pc = "call"
  /\ ports = <<>>
  /\ warnings = 0
  /\ target_ip \in {IpLiteral, HostName}
  /\ \E port \in ProbePorts : futures = <<Future(port)>>
  /\ work_queue = <<1>>
  /\ num_threads = 1
  /\ idle_sem = 0
  /\ results = <<>>
  /\ progress = 0
  /\ report = <<>>
  /\ returned = FALSE
  /\ exc = ""
  /\ interrupted = FALSE
  /\ exit_code = 0 - 1

ProbeNext == ProbeStart(1) \/ ProbeConnect(1)

ProbeSpec == ProbeInit /\ [][ProbeNext]_vars

\* ------------------------------------------- parse_port_range on its own
\* parse_port_range called directly: every string of at most MaxLen
\* characters over a small alphabet, and a few longer ones (the examples
\* of the documentation, the bounds of the port range, repeated ports).
ParseAlphabet == {"0", "1", "2", "-", ",", " ", "x"}

NamedInputs ==
  { <<"8", "0", ",", "a", "b", "c", ",", "4", "4", "3">>,
    <<"2", "2", ",", "8", "0", ",", "4", "4", "3">>,
    <<"2", ",", "1", ",", "2">>,
    <<"1", "-", "5">>,
    <<"5", "-", "1">>,
    <<"1", "0", "0", "-", "5", "0">>,
    <<"1", "-", "2", "-", "3">>,
    <<"2", "-", "3", ",", "1", "-", "2">>,
    <<"6", "5", "5", "3", "5">>,
    <<"6", "5", "5", "3", "6">>,
    <<"6", "5", "5", "3", "4", "-", "6", "5", "5", "3", "5">>,
    <<"6", "5", "5", "3", "5", "-", "6", "5", "5", "3", "6">> }

ParseInputs ==
  UNION {[1..n -> ParseAlphabet] : n \in 0..MaxLen} \cup NamedInputs

ParseInit ==
  /\ \E s \in ParseInputs :
       args = [ports |-> s, target |-> "resolvable", timeout |-> 1,
               workers |-> 1]
  /\ pc = "parse_call"
  /\ ports = <<>>
  /\ warnings = 0
  /\ target_ip = ""
  /\ futures = <<>>
  /\ work_queue = <<>>
  /\ num_threads = 0
  /\ idle_sem = 0
  /\ results = <<>>
  /\ progress = 0
  /\ report = <<>>
  /\ returned = FALSE
  /\ exc = ""
  /\ interrupted = FALSE
  /\ exit_code = 0 - 1

\* The call returns the list, or raises.
ParseCall ==
  /\ pc = "parse_call"
  /\ LET r == parse_port_range(args.ports)
     IN  /\ ports' = r.ports
         /\ warnings' = r.warnings
         /\ exc' = IF r.raised THEN "ValueError" ELSE ""
  /\ pc' = "parsed"
  /\ UNCHANGED <<args, target_ip, futures, work_queue, num_threads, idle_sem,
                 results, progress, report, returned, interrupted, exit_code>>

ParseNext == ParseCall

ParseSpec == ParseInit /\ [][ParseNext]_vars

\* --------------------------------------------------------------- claims
\* Number of scan_port invocations so far.
ProbesStarted ==
  Cardinality({i \in 1..Len(futures) : futures[i].state # "PENDING"})

PortsOf(seq) == {seq[i][1] : i \in 1..Len(seq)}

\* The probe of futures[i] ended in failure: it raised, or found the port
\* not open.
ProbeFailed(i) ==
  /\ futures[i].state = "FINISHED"
  /\ IF futures[i].exception # "" THEN TRUE ELSE ~futures[i].result[2]

\* C1: when scan_ports has returned, the returned list has exactly one
\* entry per input port: as many entries as ports, and the same set of
\* ports, for every worker count and every order of completion.
C1_ExactlyOneResultPerPort ==
  returned =>
    /\ Len(report) = Len(ports)
    /\ PortsOf(report) = {ports[i] : i \in 1..Len(ports)}

\* A scan of several ports by several workers returned, the probes having
\* completed out of port order, one of them on a closed port.
C1_Witness ==
  /\ returned
  /\ Len(ports) > 1
  /\ args.workers > 1
  /\ results # report
  /\ \E i \in 1..Len(report) : ~report[i][2]

\* C2: at every instant the number of probes in flight is at most the
\* configured worker count.
C2_InFlightAtMostMaxWorkers ==
  Cardinality(Running) <= (IF args.workers > 0 THEN args.workers ELSE 0)

\* The pool is saturated while ports are still queued: more ports than
\* workers, every worker busy.
C2_Witness ==
  /\ args.workers > 1
  /\ Cardinality(Running) = args.workers
  /\ work_queue # <<>>

\* C3: the list scan_ports returns is sorted ascending by port, whatever
\* order the probes completed in.
C3_ReportSortedByPort ==
  returned =>
    \A i, j \in 1..Len(report) : i < j => report[i][1] <= report[j][1]

\* scan_ports returned after collecting a higher port before a lower one.
C3_Witness ==
  /\ returned
  /\ \E i, j \in 1..Len(results) : i < j /\ results[i][1] > results[j][1]

\* C4: scan_port never raises to its caller: no future ever holds an
\* exception.
C4_ScanPortNeverRaises ==
  \A i \in 1..Len(futures) : futures[i].exception = ""

\* C5: a failing probe (raising included) never aborts the scan: when an
\* uninterrupted run has ended, for every port whose probe failed, every
\* other port was probed and is in the results scan_ports returned.
C5_ProbeFailureIsolated ==
  (pc = "exit" /\ ~interrupted) =>
    \A i \in 1..Len(futures) :
      ProbeFailed(i) =>
        \A k \in 1..Len(ports) :
          k # i =>
            /\ k <= Len(futures)
            /\ futures[k].state = "FINISHED"
            /\ returned
            /\ ports[k] \in PortsOf(report)

\* C6: a call of scan_port that created a socket and has returned has
\* closed that socket.
C6_SocketClosedOnReturn ==
  \A i \in 1..Len(futures) :
    (futures[i].state = "FINISHED" /\ futures[i].exception = "")
      => futures[i].sock # "open"

\* C7: once the interrupt has arrived (in a run with a valid timeout), no
\* probe that had not started is started.
C7_NoProbeStartsAfterInterrupt ==
  [][(interrupted /\ args.timeout > 0) =>
       \A i \in 1..Len(futures) :
         futures[i].state = "PENDING" => futures'[i].state = "PENDING"]_vars

\* C8: with a timeout of zero or less, no probe is performed and no scan
\* result is produced.
C8_NonPositiveTimeoutRejected ==
  args.timeout <= 0 => (ProbesStarted = 0 /\ ~returned)

\* C9: with a worker count of zero or less, nothing is dispatched, no
\* probe is performed, and the process ends with a non-zero exit code.
C9_NonPositiveWorkersFatal ==
  args.workers <= 0 =>
    /\ futures = <<>>
    /\ ProbesStarted = 0
    /\ pc = "exit" => exit_code # 0

\* The run reached the scan with a worker count below one and ended on
\* the executor's ValueError.
C9_Witness ==
  /\ args.workers <= 0
  /\ target_ip # ""
  /\ exc = "ValueError"
  /\ pc = "exit"
  /\ exit_code = 1

\* C10: when the target does not resolve, no probe is performed, no scan
\* result is produced, and the process exits with code 1.
C10_UnresolvableTargetFailsFast ==
  args.target = "unresolvable" =>
    /\ ProbesStarted = 0
    /\ ~returned
    /\ pc = "exit" => exit_code = 1

\* The run parsed a non-empty port list, failed to resolve the target and
\* ended.
C10_Witness ==
  /\ args.target = "unresolvable"
  /\ ports # <<>>
  /\ pc = "exit"
  /\ exit_code = 1
  /\ futures = <<>>

\* C11: when the port specification yields no valid port, the run is a
\* hard error: the process has ended with exit code 1, nothing was
\* dispatched, no probe was performed and no scan was reported.
C11_NoValidPortIsFatal ==
  (pc # "parse" /\ ports = <<>>) =>
    /\ pc = "exit"
    /\ exit_code = 1
    /\ futures = <<>>
    /\ ProbesStarted = 0
    /\ ~returned

\* The empty port string was parsed (one warning, no port) and the run
\* ended with exit code 1.
C11_Witness ==
  /\ args.ports = <<>>
  /\ warnings = 1
  /\ ports = <<>>
  /\ pc = "exit"
  /\ exit_code = 1

\* The grammar of a token: an integer in [1,65535], or two integers
\* separated by one "-" with 1 <= start <= end <= 65535.
TokenPieces(tok) == split(strip(tok), "-")

SingleToken(tok) ==
  /\ Len(TokenPieces(tok)) = 1
  /\ is_int(tok)
  /\ MIN_PORT <= int(tok) /\ int(tok) <= MAX_PORT

RangeToken(tok) ==
  /\ Len(TokenPieces(tok)) = 2
  /\ is_int(TokenPieces(tok)[1])
  /\ is_int(TokenPieces(tok)[2])

RangeStart(tok) == int(TokenPieces(tok)[1])

RangeEnd(tok) == int(TokenPieces(tok)[2])

GoodRangeToken(tok) ==
  /\ RangeToken(tok)
  /\ MIN_PORT <= RangeStart(tok)
  /\ RangeStart(tok) <= RangeEnd(tok)
  /\ RangeEnd(tok) <= MAX_PORT

WellFormed(tok) == SingleToken(tok) \/ GoodRangeToken(tok)

TokenPorts(tok) ==
  IF SingleToken(tok) THEN {int(tok)}
  ELSE IF GoodRangeToken(tok) THEN RangeStart(tok)..RangeEnd(tok)
  ELSE {}

Tokens(s) == split(s, ",")

\* C12: parse_port_range does not abort on a malformed token: it returns,
\* having printed exactly one warning per malformed token, and the ports
\* it returns are exactly those of the well-formed tokens.
C12_MalformedTokensSkipped ==
  pc = "parsed" =>
    LET toks == Tokens(args.ports)
    IN  /\ exc = ""
        /\ warnings = Cardinality({i \in 1..Len(toks) : ~WellFormed(toks[i])})
        /\ set(ports) = UNION {TokenPorts(toks[i]) : i \in 1..Len(toks)}

\* The same, for the inputs none of whose tokens has more than one "-".
C12_HoldsForSingleSeparator ==
  (pc = "parsed" /\ \A i \in 1..Len(Tokens(args.ports)) :
                      Len(TokenPieces(Tokens(args.ports)[i])) <= 2)
    => C12_MalformedTokensSkipped

\* C13: whenever parse_port_range returns, the list is strictly ascending
\* (so free of duplicates) and each element lies in [1,65535].
C13_ParsedPortsAscendingInRange ==
  (pc = "parsed" /\ exc = "") =>
    /\ \A i, j \in 1..Len(ports) : i < j => ports[i] < ports[j]
    /\ \A i \in 1..Len(ports) : MIN_PORT <= ports[i] /\ ports[i] <= MAX_PORT

\* "2,1,2" was parsed: given out of order and with port 2 in two tokens,
\* returned as 1, 2.
C13_Witness ==
  /\ pc = "parsed"
  /\ args.ports = <<"2", ",", "1", ",", "2">>
  /\ ports = <<1, 2>>

\* C17: a range token "start-end" contributes ports exactly when
\* 1 <= start <= end <= 65535, and then contributes start, ..., end; any
\* other range token is rejected with a warning and contributes nothing.
C17_RangeTokenValidated ==
  (pc = "parsed" /\ Len(Tokens(args.ports)) = 1 /\ RangeToken(args.ports)) =>
    LET start == RangeStart(args.ports)
        end   == RangeEnd(args.ports)
    IN  IF MIN_PORT <= start /\ start <= end /\ end <= MAX_PORT
          THEN /\ Len(ports) = end - start + 1
               /\ \A k \in 1..Len(ports) : ports[k] = start + k - 1
               /\ warnings = 0
          ELSE /\ ports = <<>>
               /\ warnings = 1

\* The reversed range "5-1" was parsed: no port, one warning.
C17_Witness ==
  /\ pc = "parsed"
  /\ args.ports = <<"5", "-", "1">>
  /\ ports = <<>>
  /\ warnings = 1
  /\ exc = ""

\* C14: a run whose scan completed ends with exit code 0, whatever the
\* number of open ports, and a run interrupted during the scan ends with
\* exit code 0, from the handler that prints the cancellation notice.
C14_CompletedOrInterruptedExitsZero ==
  pc = "exit" =>
    /\ returned => exit_code = 0
    /\ interrupted => (exit_code = 0 /\ exc = "KeyboardInterrupt")

\* A scan was interrupted after a probe had started, and the process
\* ended with exit code 0.
C14_Witness ==
  /\ pc = "exit"
  /\ interrupted
  /\ ProbesStarted > 0
  /\ exit_code = 0

\* C15: with a positive timeout and at least one worker, a scan that has
\* started terminates: every probe completes and scan_ports eventually
\* returns.
C15_ScanTerminates ==
  (pc = "submit") ~>
    (returned /\ \A i \in 1..Len(futures) : futures[i].state = "FINISHED")

\* scan_ports returned from a scan of more ports than workers, every
\* probe having gone through the blocking connect.
C15_Witness ==
  /\ returned
  /\ args.timeout > 0
  /\ Len(ports) > args.workers
  /\ \A i \in 1..Len(futures) : futures[i].sock = "closed"

C18_ResultClassifiesProbe ==
  \A i \in 1..Len(futures) :
    (futures[i].state = "FINISHED" /\ futures[i].exception = "") =>
      LET r == futures[i].result
          port == futures[i].port
      IN  /\ r[1] = port
          /\ r[2] <=> futures[i].rc = "zero"
          /\ r[2] => /\ r[3] # ""
                     /\ getservbyport(port) = "" => r[3] = "unknown"
                     /\ getservbyport(port) # "" => r[3] = getservbyport(port)
          /\ ~r[2] => r[3] = ""

\* The connect to a port without an entry in the services database
\* succeeded: the result is open with service "unknown".
C18_Witness ==
  /\ futures[1].state = "FINISHED"
  /\ futures[1].rc = "zero"
  /\ getservbyport(futures[1].port) = ""
  /\ futures[1].result = <<futures[1].port, TRUE, "unknown">>

\* The banner a result carries: its fourth component, none ("") when the
\* result has no such component.
banner(result) == IF Len(result) >= 4 THEN result[4] ELSE ""

====
